---- MODULE Spec2Model ----
(***************************************************************************)
(* Feed ingestion pipeline of news-aggregator-cdk: feed registration       *)
(* (feed_manager), the scheduler (feed_scheduler) and the queue consumer   *)
(* (feed_item_manager), over one DynamoDB table and one SQS queue.         *)
(*                                                                         *)
(* Encoding of values.                                                     *)
(*  - A Python dict / DynamoDB item is a TLA+ record whose domain is the   *)
(*    set of keys that are present, so dict equality is record equality.   *)
(*  - A Python value handed to prepare_item is PyStr(s), PyInt(n), PyList(q) or  *)
(*    PyNone; a DynamoDB attribute value is [S |-> s], [N |-> n],          *)
(*    [SS |-> ...] as in the client API.                                   *)
(*  - A key string "FEED#<id>" is the pair <<"FEED#", id>>, so that        *)
(*    begins_with and split("#") are computed on the prefix.               *)
(*  - A timestamp string is <<format, t>>; strptime succeeds only on the   *)
(*    format it is given.                                                  *)
(***************************************************************************)
EXTENDS Integers, Sequences, FiniteSets, TLC

\* ---------------------------------------------------------------- bounds
\* number of polls (records processed by the queue consumer) in a behaviour
MaxPolls == 2
\* number of messages ever sent to the queue
MaxMsgs == 2
\* number of injected store faults (ClientError) in a behaviour
MaxFaults == 1
\* number of records in one stream event
MaxBatch == 2
\* number of entries of a generated document
MaxEntries == 57

Workers == {"w1", "w2"}
Registrars == {"r1", "r2", "r3"}
Urls == {"u1", "u2"}
\* ids uuid4 may return; GhostId is an id no registration ever produced
UuidPool == {"f1", "f2"}
GhostId == "fx"

\* ------------------------------------------------------- Python values
PyNone == [none |-> TRUE]
PyStr(s) == [str |-> s]
PyInt(n) == [int |-> n]
PyList(q) == [list |-> q]

\* dict.get(key, default)
Get(d, k, default) == IF k \in DOMAIN d THEN d[k] ELSE default

\* truthiness of a Python value
Truthy(v) == v # PyNone /\ v # PyStr("") /\ v # PyInt(0) /\ v # PyList(<<>>)

\* {k: v for k, v in d.items() if v}
DropNone(d) == [k \in {a \in DOMAIN d : d[a] # PyNone} |-> d[k]]

\* ------------------------------------------------------------ table keys
FeedPK(id) == <<"FEED#", id>>
MetaSK(id) == <<"META#", id>>
ItemSK(k) == <<"ITEM#", k>>
UniqueKey(url) == <<"UNIQUE#FEED_URL#", url>>
begins_with(s, prefix) == s[1] = prefix

MetaKey(id) == <<FeedPK(id), MetaSK(id)>>
ItemKey(id, k) == <<FeedPK(id), ItemSK(k)>>
MarkerKey(url) == <<UniqueKey(url), UniqueKey(url)>>

\* timestamps: datetime.now().isoformat() and the scheduler's strptime format
IsoFormat == "%Y-%m-%dT%H:%M:%S.%f"
SchedulerFormat == "%Y-%m-%d %H:%M:%S"
isoformat(t) == <<IsoFormat, t>>

VARIABLES
    table,      \* the DynamoDB table: <<PK, SK>> -> item
    queue,      \* messages in the SQS queue (not deleted)
    nextMsg,    \* number of messages sent so far
    deleted,    \* message id -> number of message.delete() calls
    clock,      \* number of polls started; datetime.now() of the next poll
    faults,     \* store faults injected so far
    reg,        \* create_feed requests: registrar -> local state
    wk,         \* feed_message_handler invocations: worker -> local state
    sched,      \* outcome of the last scheduler run
    hist,       \* feed id -> the last finished store_feed_items run
    live        \* workers that take invocations

vars == <<table, queue, nextMsg, deleted, clock, faults, reg, wk, sched, hist, live>>

\* datetime.now() / datetime.utcnow(), in seconds: the clock counts hours
Now == clock * 3600

\* ------------------------------------------------------ store primitives
Put(t, key, item) == [k \in DOMAIN t \cup {key} |-> IF k = key THEN item ELSE t[k]]
Exists(t, key) == key \in DOMAIN t

\* update_item SET attr = value, ...: an upsert on the key
SetAttrs(t, key, base, attrs) ==
    LET old == IF Exists(t, key) THEN t[key] ELSE base
    IN  Put(t, key, [a \in DOMAIN old \cup DOMAIN attrs |->
                        IF a \in DOMAIN attrs THEN attrs[a] ELSE old[a]])

MetaRecords(t) == {k \in DOMAIN t : begins_with(k[2], "META#")}
ItemRecords(t) == {k \in DOMAIN t : begins_with(k[2], "ITEM#")}
Markers(t) == {k \in DOMAIN t : begins_with(k[1], "UNIQUE#FEED_URL#")}

\* ------------------------------------------------- feed_manager/index.py
\* feed_manager.prepare_item
prepare_item(key_type, value) ==
    IF key_type = "S" /\ Truthy(value) THEN [S |-> value.str]
    ELSE IF key_type = "N" /\ value # PyNone THEN [N |-> value.int]
    ELSE IF key_type = "BOOL" THEN [BOOL |-> Truthy(value)]
    ELSE IF key_type = "SS" /\ Truthy(value) THEN [SS |-> value.list]
    ELSE PyNone

\* FeedStatus
ACTIVE == "active"
INACTIVE == "inactive"

\* feed-level metadata feedparser may return at registration
RegFeeds == { 
              [title |-> PyStr("T"), sy_updateperiod |-> PyStr("daily"),
               sy_updatefrequency |-> PyStr("2")] }

\* the feed_metadata dict of store_feed_metadata, None values filtered out
feed_metadata(feed_url, feed) ==
    DropNone([ feed_url |-> prepare_item("S", PyStr(feed_url)),
               feed_title |-> prepare_item("S", Get(feed, "title", PyNone)),
               last_polled |-> prepare_item("S", PyStr("")),
               update_period |-> prepare_item("S", Get(feed, "sy_updateperiod", PyStr("hourly"))),
               update_frequency |-> prepare_item("S", Get(feed, "sy_updatefrequency", PyStr("1"))),
               status |-> prepare_item("S", PyStr(ACTIVE)),
               error_count |-> prepare_item("N", PyInt(0)),
               last_error_message |-> prepare_item("S", PyStr("")),
               push_last_subscription |-> prepare_item("S", PyStr("")) ])

\* the META item of the transaction: {"PK": pk_value, "SK": sk_value, **feed_metadata}
MetaItem(feed_id, feed_url, feed) ==
    LET md == feed_metadata(feed_url, feed)
        ks == [PK |-> [S |-> FeedPK(feed_id)], SK |-> [S |-> MetaSK(feed_id)]]
    IN  [a \in DOMAIN ks \cup DOMAIN md |-> IF a \in DOMAIN md THEN md[a] ELSE ks[a]]

MarkerItem(feed_url) == [PK |-> [S |-> UniqueKey(feed_url)], SK |-> [S |-> UniqueKey(feed_url)]]

\* the marker put without its ConditionExpression
MarkerCondition_Unconditional(t, feed_url) == TRUE

\* ConditionExpression of the marker put: attribute_not_exists(PK) AND attribute_not_exists(SK)
MarkerCondition(t, feed_url) == ~Exists(t, MarkerKey(feed_url))

\* transact_write_items of store_feed_metadata: both puts or none
store_feed_metadata(t, feed_id, feed_url, feed) ==
    Put(Put(t, MarkerKey(feed_url), MarkerItem(feed_url)),
        MetaKey(feed_id), MetaItem(feed_id, feed_url, feed))

\* uuid.uuid4(): an id under which the table holds nothing
FreshIds(t) == {id \in UuidPool : \A k \in DOMAIN t : k[1] # FeedPK(id)}

Response(code, message) == [statusCode |-> code, message |-> message]
NoResponse == Response(0, "")
RegIdle == [pc |-> "idle", url |-> "", feed |-> [title |-> PyNone], saw |-> FALSE, resp |-> NoResponse,
            feed_id |-> ""]

\* create_feed up to feedparser.parse, for a request naming one of urls: an
\* invalid feed is answered 400
CreateFeedParse(r, urls) ==
    /\ reg[r].pc = "idle"
    /\ \E url \in urls :
         \/ reg' = [reg EXCEPT ![r] = [RegIdle EXCEPT !.pc = "done", !.url = url,
                        !.saw = Exists(table, MarkerKey(url)),
                        !.resp = Response(400, "Invalid feed URL")]]
         \/ \E feed \in RegFeeds :
              reg' = [reg EXCEPT ![r] = [RegIdle EXCEPT !.pc = "store", !.url = url,
                        !.feed = feed, !.saw = Exists(table, MarkerKey(url))]]
    /\ UNCHANGED <<table, queue, nextMsg, deleted, clock, faults, wk, sched, hist, live>>

\* create_feed from store_feed_metadata to the response
CreateFeedStore(r) ==
    /\ reg[r].pc = "store"
    /\ LET url == reg[r].url IN
         \/ /\ ~MarkerCondition(table, url)   \* TransactionCanceledException
            /\ reg' = [reg EXCEPT ![r].pc = "done",
                          ![r].resp = Response(400, "already exists or another condition failed")]
            /\ UNCHANGED <<table, faults>>
         \/ /\ faults < MaxFaults               \* any other ClientError
            /\ faults' = faults + 1
            /\ reg' = [reg EXCEPT ![r].pc = "done",
                          ![r].resp = Response(500, "Internal server error")]
            /\ UNCHANGED table
         \/ /\ MarkerCondition(table, url)
            /\ \E feed_id \in FreshIds(table) :
                 table' = store_feed_metadata(table, feed_id, url, reg[r].feed)
            /\ reg' = [reg EXCEPT ![r].pc = "done",
                          ![r].resp = Response(200, "Feed added successfully")]
            /\ UNCHANGED faults
    /\ UNCHANGED <<queue, nextMsg, deleted, clock, wk, sched, hist, live>>

\* a delete that removes the feed's records
delete_feed_Cascade(t, feed_id) == [k \in {j \in DOMAIN t : j[1] # FeedPK(feed_id)} |-> t[k]]

\* a delete that also removes the uniqueness marker of the feed's url
delete_feed_FreeUrl(t, feed_id) ==
    LET u == SetAttrs(t, MetaKey(feed_id),
                      [PK |-> [S |-> FeedPK(feed_id)], SK |-> [S |-> MetaSK(feed_id)]],
                      [status |-> [S |-> INACTIVE]])
        gone == IF "feed_url" \in DOMAIN u[MetaKey(feed_id)]
                THEN {MarkerKey(u[MetaKey(feed_id)].feed_url.S)} ELSE {}
    IN  [k \in DOMAIN u \ gone |-> u[k]]

\* lines 296-301: update_item SET #status = :status on the META key
delete_feed(t, feed_id) ==
    SetAttrs(t, MetaKey(feed_id), [PK |-> [S |-> FeedPK(feed_id)], SK |-> [S |-> MetaSK(feed_id)]],
             [status |-> [S |-> INACTIVE]])

\* DELETE /feeds/<feed_id> for one of feed_ids: lines 284-311
DeleteFeed(r, feed_ids) ==
    /\ reg[r].pc = "idle"
    /\ \E feed_id \in feed_ids :
         \/ /\ table' = delete_feed(table, feed_id)
            /\ reg' = [reg EXCEPT ![r] = [RegIdle EXCEPT !.pc = "done", !.feed_id = feed_id,
                          !.resp = Response(200, "Feed deleted successfully")]]
            /\ UNCHANGED faults
         \/ /\ faults < MaxFaults               \* ClientError
            /\ faults' = faults + 1
            /\ reg' = [reg EXCEPT ![r] = [RegIdle EXCEPT !.pc = "done", !.feed_id = feed_id,
                          !.resp = Response(500, "An error occurred")]]
            /\ UNCHANGED table
    /\ UNCHANGED <<queue, nextMsg, deleted, clock, wk, sched, hist, live>>

\* -------------------------------------------- feed_item_manager/index.py
\* entries feedparser may return (dicts: only the present fields are in the domain)
EntryA == [guid |-> PyStr("k1"), title |-> PyStr("A")]
EntryB == [guid |-> PyStr("k1"), title |-> PyStr("B")]
EntryT == [id |-> PyStr("k2"), link |-> PyStr("l2"), tags |-> <<"x", "y">>]
EntryL == [link |-> PyStr("k1"), title |-> PyStr("A")]
EntryN == [title |-> PyStr("A"), description |-> PyStr("no identity")]

\* parsed documents (feed_data.entries) with bozo = 0
Docs == { <<>>, <<EntryA>>, <<EntryT>>, <<EntryA, EntryL>> }

\* ClientError / ParamValidationError messages (str(exc))
ErrEmptyKeys == "ParamValidationError: Invalid length for parameter Keys, valid min length: 1"
ErrTooManyKeys == "ClientError: ValidationException: too many items requested for BatchGetItem"
ErrDuplicateKeys == "ClientError: ValidationException: provided list of item keys contains duplicates"
ErrBatchGet == "ClientError: batch_get_item"
ErrBatchWrite == "ClientError: batch_write_item"
ErrUpdateItem == "ClientError: update_item"

\* all lists that enumerate the set S once: list(set(...)) in some iteration order
ListsOfSet(S) == {q \in [1..Cardinality(S) -> S] : \A i, j \in 1..Cardinality(S) : q[i] = q[j] => i = j}
SetOfList(q) == {q[i] : i \in DOMAIN q}

\* the id is looked at before the guid
item_sk_IdFirst(entry) ==
    IF "id" \in DOMAIN entry THEN PyStr(entry.id.str)
    ELSE IF "guid" \in DOMAIN entry THEN PyStr(entry.guid.str)
    ELSE IF "link" \in DOMAIN entry THEN PyStr(entry.link.str)
    ELSE PyNone

\* lines 91-98: the sort key of an entry, PyNone when the entry is skipped
item_sk(entry) ==
    IF "guid" \in DOMAIN entry THEN PyStr(entry.guid.str)
    ELSE IF "id" \in DOMAIN entry THEN PyStr(entry.id.str)
    ELSE IF "link" \in DOMAIN entry THEN PyStr(entry.link.str)
    ELSE PyNone

\* line 101: {tag.term for tag in entry.get("tags", [])}
TagTerms(entry) == SetOfList(Get(entry, "tags", <<>>))

\* lines 104-109: comments link, else the first link with rel = "replies"
comments_link(entry) ==
    LET direct == Get(entry, "comments", PyNone)
        links == Get(entry, "links", <<>>)
        replies == SelectSeq(links, LAMBDA l : l.rel = "replies")
    IN  IF Truthy(direct) THEN direct
        ELSE IF Len(replies) > 0 THEN PyStr(replies[1].href) ELSE PyNone

\* lines 111-130: the feed item of an entry whose categories list is cats
feed_item(feed_id, entry, cats) ==
    LET item_data == DropNone(
            [ title |-> prepare_item("S", Get(entry, "title", PyNone)),
              link |-> prepare_item("S", Get(entry, "link", PyNone)),
              description |-> prepare_item("S", Get(entry, "description", PyNone)),
              author |-> prepare_item("S", Get(entry, "author", PyNone)),
              published |-> prepare_item("S", Get(entry, "published", PyNone)),
              updated |-> prepare_item("S", Get(entry, "updated", PyNone)),
              content |-> prepare_item("S", Get(entry, "content", PyNone)),
              categories |-> prepare_item("SS", PyList(cats)),
              comments_link |-> prepare_item("S", comments_link(entry)) ])
        ks == [PK |-> [S |-> FeedPK(feed_id)], SK |-> [S |-> ItemSK(item_sk(entry).str)]]
    IN  [a \in DOMAIN ks \cup DOMAIN item_data |->
            IF a \in DOMAIN item_data THEN item_data[a] ELSE ks[a]]

\* lines 85-134: the feed_items lists the loop over the entries can build
RECURSIVE feed_items(_, _)
feed_items(feed_id, entries) ==
    IF entries = <<>> THEN {<<>>}
    ELSE IF Len(entries) = 1
    THEN LET entry == entries[1]
         IN  IF item_sk(entry) = PyNone THEN {<<>>}
             ELSE {<<feed_item(feed_id, entry, cats)>> :
                        cats \in ListsOfSet(TagTerms(entry))}
    ELSE LET half == Len(entries) \div 2
         IN  {l \o r : l \in feed_items(feed_id, SubSeq(entries, 1, half)),
                       r \in feed_items(feed_id, SubSeq(entries, half + 1, Len(entries)))}

\* line 138: batch_keys, as (PK, SK) pairs
batch_keys(items) == [i \in DOMAIN items |-> <<items[i].PK.S, items[i].SK.S>>]

\* a string set as the table holds it, and as a read returns it
ToStored(item) ==
    [a \in DOMAIN item |-> IF a = "categories" THEN [SS |-> SetOfList(item[a].SS)] ELSE item[a]]
ReadsOf(stored) ==
    IF "categories" \in DOMAIN stored
    THEN {[a \in DOMAIN stored |-> IF a = "categories" THEN [SS |-> q] ELSE stored[a]] :
              q \in ListsOfSet(stored.categories.SS)}
    ELSE {stored}

\* lines 139-141: the request batch_get_item rejects, "" when it accepts the keys
batch_get_error(keys) ==
    IF Len(keys) = 0 THEN ErrEmptyKeys
    ELSE IF Len(keys) > 100 THEN ErrTooManyKeys
    ELSE IF \E i, j \in DOMAIN keys : i # j /\ keys[i] = keys[j] THEN ErrDuplicateKeys
    ELSE ""

\* lines 143-145: the fetched_items_dict values a batch_get_item can produce
fetched_items_dicts(t, keys) ==
    LET found == {k \in SetOfList(keys) : Exists(t, k)}
        multi == {k \in found : Cardinality(ReadsOf(t[k])) > 1}
        reads == UNION {ReadsOf(t[k]) : k \in multi}
        orders == {d \in [multi -> reads] : \A k \in multi : d[k] \in ReadsOf(t[k])}
    IN  {[k \in found |-> IF k \in multi THEN d[k] ELSE CHOOSE r \in ReadsOf(t[k]) : TRUE] :
            d \in orders}

\* only the items without a stored record: a changed item is not written
items_to_write_NewOnly(items, fetched) ==
    SelectSeq(items, LAMBDA item : <<item.PK.S, item.SK.S>> \notin DOMAIN fetched)

\* lines 150-155: new or changed items
items_to_write(items, fetched) ==
    SelectSeq(items, LAMBDA item :
        LET key == <<item.PK.S, item.SK.S>>
        IN  key \notin DOMAIN fetched \/ fetched[key] # item)

\* only the full batches: the remainder is dropped
chunk_DropRemainder(items, batch_size) ==
    [i \in 1..(Len(items) \div batch_size) |->
        SubSeq(items, (i - 1) * batch_size + 1, i * batch_size)]

\* lines 48-51
chunk(items, batch_size) ==
    [i \in 1..((Len(items) + batch_size - 1) \div batch_size) |->
        SubSeq(items, (i - 1) * batch_size + 1,
               IF i * batch_size < Len(items) THEN i * batch_size ELSE Len(items))]

\* lines 161-162: one batch_write_item of put requests
RECURSIVE batch_write_item(_, _)
batch_write_item(t, batch) ==
    IF batch = <<>> THEN t
    ELSE batch_write_item(Put(t, <<Head(batch).PK.S, Head(batch).SK.S>>, ToStored(Head(batch))),
                          Tail(batch))

\* the item update_item creates when the key does not exist
KeyOnly(feed_id) == [PK |-> [S |-> FeedPK(feed_id)], SK |-> [S |-> MetaSK(feed_id)]]

\* a success update that leaves the error count as it is
update_feed_on_success_KeepCount(t, feed_id, current_time) ==
    SetAttrs(t, MetaKey(feed_id), KeyOnly(feed_id),
             [ last_error_message |-> [S |-> ""],
               last_polled |-> [S |-> current_time] ])

\* a success update that leaves the last error message as it is
update_feed_on_success_KeepMessage(t, feed_id, current_time) ==
    SetAttrs(t, MetaKey(feed_id), KeyOnly(feed_id),
             [ error_count |-> [N |-> 0],
               last_polled |-> [S |-> current_time] ])

\* lines 54-65
update_feed_on_success(t, feed_id, current_time) ==
    SetAttrs(t, MetaKey(feed_id), KeyOnly(feed_id),
             [ error_count |-> [N |-> 0],
               last_error_message |-> [S |-> ""],
               last_polled |-> [S |-> current_time] ])

\* a failure update that sets the error count instead of adding to it
update_feed_on_error_SetOne(t, feed_id, error_message, current_time) ==
    SetAttrs(t, MetaKey(feed_id), KeyOnly(feed_id),
             [ error_count |-> [N |-> 1],
               last_error_message |-> [S |-> error_message],
               last_polled |-> [S |-> current_time] ])

\* lines 68-79: ADD on a missing attribute starts from 0
update_feed_on_error(t, feed_id, error_message, current_time) ==
    LET old == IF Exists(t, MetaKey(feed_id)) THEN t[MetaKey(feed_id)] ELSE KeyOnly(feed_id)
        count == IF "error_count" \in DOMAIN old THEN old.error_count.N ELSE 0
    IN  SetAttrs(t, MetaKey(feed_id), KeyOnly(feed_id),
                 [ error_count |-> [N |-> count + 1],
                   last_error_message |-> [S |-> error_message],
                   last_polled |-> [S |-> current_time] ])

\* ----------------------------------------------- feed_message_handler
FeedIds == UuidPool \cup {GhostId}
Message(id, feed_id, feed_url) == [id |-> id, feed_id |-> feed_id, feed_url |-> feed_url]
NoMsg == Message(0, "", "")
NoRun == [doc |-> <<>>, ok |-> FALSE]
WkIdle == [ pc |-> "idle", records |-> <<>>, cur |-> NoMsg, time |-> 0, doc |-> <<>>,
            items |-> <<>>, batches |-> <<>>, exc |-> "", ev |-> {}, puts |-> 0,
            prev |-> NoRun, status |-> "none", errors |-> {} ]

\* messages some invocation holds (received and not yet returned)
InFlight == UNION {SetOfList(wk[w].records) \cup {wk[w].cur} : w \in {v \in Workers : wk[v].pc # "idle"}}

\* the registered feeds; a task for any other feed_id carries a url of the producer's
Registered(t) == {id \in UuidPool : Exists(t, MetaKey(id)) /\ "feed_url" \in DOMAIN t[MetaKey(id)]}
TaskFor(t, feed_id) ==
    IF feed_id \in Registered(t) THEN [feed_id |-> feed_id, feed_url |-> t[MetaKey(feed_id)].feed_url.S]
    ELSE [feed_id |-> feed_id, feed_url |-> "u1"]

\* queue.send_message of a sequence of message bodies
RECURSIVE send_messages(_, _, _)
send_messages(q, n, bodies) ==
    IF bodies = <<>> THEN q
    ELSE send_messages(q \cup {Message(n + 1, Head(bodies).feed_id, Head(bodies).feed_url)},
                       n + 1, Tail(bodies))

\* a FetchTask put on the queue by a producer other than the scheduler, for
\* one of feed_ids
SendTask(feed_ids) ==
    /\ nextMsg < MaxMsgs
    /\ \E feed_id \in feed_ids :
         queue' = send_messages(queue, nextMsg, <<TaskFor(table, feed_id)>>)
    /\ nextMsg' = nextMsg + 1
    /\ UNCHANGED <<table, deleted, clock, faults, reg, wk, sched, hist, live>>

\* the queue hands event["Records"] to the handler
Invoke(w) ==
    /\ w \in live
    /\ wk[w].pc = "idle"
    /\ LET avail == queue \ InFlight IN
         \E n \in 1..Cardinality(avail) : \E records \in [1..n -> avail] :
            /\ \A i, j \in 1..n : i < j => records[i].id < records[j].id
            /\ wk' = [wk EXCEPT ![w] = [WkIdle EXCEPT !.pc = "loop", !.records = records,
                                                    !.status = "running"]]
    /\ UNCHANGED <<table, queue, nextMsg, deleted, clock, faults, reg, sched, hist, live>>

\* `continue`: the record is finished, back to the head of the loop (line 219)
Continue(l) == [l EXCEPT !.pc = "loop", !.doc = <<>>, !.items = <<>>, !.batches = <<>>,
                         !.exc = "", !.prev = NoRun]

\* lines 219-231: next record, feedparser.parse, the entries loop of store_feed_items
Fetch(w) ==
    /\ wk[w].pc = "loop"
    /\ wk[w].records # <<>>
    /\ clock < MaxPolls
    /\ clock' = clock + 1
    /\ LET record == Head(wk[w].records)
           l == [wk[w] EXCEPT !.records = Tail(@), !.cur = record, !.time = Now,
                              !.ev = {}, !.puts = 0]
       IN  \/ wk' = [wk EXCEPT ![w] = Continue([l EXCEPT !.ev = {"bozo"}])]     \* bozo
           \/ \E doc \in Docs : \E items \in feed_items(record.feed_id, doc) :
                wk' = [wk EXCEPT ![w] = [l EXCEPT !.pc = "get", !.doc = doc, !.items = items,
                                                  !.prev = hist[record.feed_id]]]
    /\ UNCHANGED <<table, queue, nextMsg, deleted, faults, reg, sched, hist, live>>

\* the exception leaves store_feed_items: the except clause is next (line 237)
Raise(l, exc, event) == [l EXCEPT !.pc = "error", !.exc = exc, !.ev = @ \cup {event},
                                  !.errors = @ \cup {exc}, !.batches = <<>>]
\* store_feed_items returned
Stored(l) == [l EXCEPT !.pc = "success", !.ev = @ \cup {"stored"}, !.batches = <<>>]

\* lines 136-157: batch_get_item and the filter
BatchGet(w) ==
    /\ wk[w].pc = "get"
    /\ LET l == wk[w]
           f == l.cur.feed_id
           keys == batch_keys(l.items)
       IN  \/ /\ batch_get_error(keys) # ""
              /\ wk' = [wk EXCEPT ![w] = Raise(l, batch_get_error(keys), "get_err")]
              /\ hist' = [hist EXCEPT ![f] = [doc |-> l.doc, ok |-> FALSE]]
              /\ UNCHANGED faults
           \/ /\ batch_get_error(keys) = ""
              /\ faults < MaxFaults
              /\ faults' = faults + 1
              /\ wk' = [wk EXCEPT ![w] = Raise(l, ErrBatchGet, "get_err")]
              /\ hist' = [hist EXCEPT ![f] = [doc |-> l.doc, ok |-> FALSE]]
           \/ /\ batch_get_error(keys) = ""
              /\ \E fetched \in fetched_items_dicts(table, keys) :
                   LET batches == chunk(items_to_write(l.items, fetched), 25) IN
                     IF batches = <<>>
                     THEN /\ wk' = [wk EXCEPT ![w] = Stored(l)]
                          /\ hist' = [hist EXCEPT ![f] = [doc |-> l.doc, ok |-> TRUE]]
                     ELSE /\ wk' = [wk EXCEPT ![w] = [l EXCEPT !.pc = "write", !.batches = batches]]
                          /\ UNCHANGED hist
              /\ UNCHANGED faults
    /\ UNCHANGED <<table, queue, nextMsg, deleted, clock, reg, sched, live>>

\* a failed batch is passed over and the later batches are still written
BatchWrite_SkipFailed(w) ==
    /\ wk[w].pc = "write"
    /\ LET l == wk[w]
           f == l.cur.feed_id
           batch == Head(l.batches)
           done(m) == IF m.batches = <<>>
                      THEN /\ wk' = [wk EXCEPT ![w] = Stored(m)]
                           /\ hist' = [hist EXCEPT ![f] = [doc |-> l.doc, ok |-> TRUE]]
                      ELSE /\ wk' = [wk EXCEPT ![w] = m]
                           /\ UNCHANGED hist
       IN  \/ /\ table' = batch_write_item(table, batch)
              /\ done([l EXCEPT !.puts = @ + Len(batch), !.batches = Tail(@)])
              /\ UNCHANGED faults
           \/ /\ faults < MaxFaults
              /\ faults' = faults + 1
              /\ done([l EXCEPT !.batches = Tail(@), !.ev = @ \cup {"write_err"},
                                !.errors = @ \cup {ErrBatchWrite}])
              /\ UNCHANGED table
    /\ UNCHANGED <<queue, nextMsg, deleted, clock, reg, sched, live>>

\* lines 160-162: the next batch_write_item
BatchWrite(w) ==
    /\ wk[w].pc = "write"
    /\ LET l == wk[w]
           f == l.cur.feed_id
           batch == Head(l.batches)
       IN  \/ /\ table' = batch_write_item(table, batch)
              /\ LET m == [l EXCEPT !.puts = @ + Len(batch), !.batches = Tail(@)] IN
                   IF m.batches = <<>>
                   THEN /\ wk' = [wk EXCEPT ![w] = Stored(m)]
                        /\ hist' = [hist EXCEPT ![f] = [doc |-> l.doc, ok |-> TRUE]]
                   ELSE /\ wk' = [wk EXCEPT ![w] = m]
                        /\ UNCHANGED hist
              /\ UNCHANGED faults
           \/ /\ faults < MaxFaults
              /\ faults' = faults + 1
              /\ wk' = [wk EXCEPT ![w] = Raise(l, ErrBatchWrite, "write_err")]
              /\ hist' = [hist EXCEPT ![f] = [doc |-> l.doc, ok |-> FALSE]]
              /\ UNCHANGED table
    /\ UNCHANGED <<queue, nextMsg, deleted, clock, reg, sched, live>>

\* lines 160-162 when the store is throttled on one put request of the batch:
\* batch_write_item returns normally with that request in UnprocessedItems;
\* the response is not read, so the loop goes on as after a full write.  (When
\* no request of the batch can be processed the call raises instead.)
BatchWriteUnprocessed(w) ==
    /\ wk[w].pc = "write"
    /\ faults < MaxFaults
    /\ faults' = faults + 1
    /\ LET l == wk[w]
           f == l.cur.feed_id
           batch == Head(l.batches)
       IN  /\ Len(batch) >= 2
           /\ \E i \in DOMAIN batch :
                table' = batch_write_item(table, SubSeq(batch, 1, i - 1)
                                                   \o SubSeq(batch, i + 1, Len(batch)))
           /\ LET m == [l EXCEPT !.puts = @ + Len(batch), !.batches = Tail(@),
                                 !.ev = @ \cup {"unprocessed"}] IN
                IF m.batches = <<>>
                THEN /\ wk' = [wk EXCEPT ![w] = Stored(m)]
                     /\ hist' = [hist EXCEPT ![f] = [doc |-> l.doc, ok |-> TRUE]]
                ELSE /\ wk' = [wk EXCEPT ![w] = m]
                     /\ UNCHANGED hist
    /\ UNCHANGED <<queue, nextMsg, deleted, clock, reg, sched, live>>

\* line 236
UpdateSuccess(w) ==
    /\ wk[w].pc = "success"
    /\ LET l == wk[w] IN
         \/ /\ table' = update_feed_on_success(table, l.cur.feed_id, isoformat(l.time))
            /\ wk' = [wk EXCEPT ![w] = [l EXCEPT !.pc = "delete", !.ev = @ \cup {"success_ok"}]]
            /\ UNCHANGED faults
         \/ /\ faults < MaxFaults
            /\ faults' = faults + 1
            /\ wk' = [wk EXCEPT ![w] = Raise(l, ErrUpdateItem, "success_err")]
            /\ UNCHANGED table
    /\ UNCHANGED <<queue, nextMsg, deleted, clock, reg, sched, hist, live>>

\* the except clause without its `continue`: the delete below it is reached
UpdateError_FallThrough(w) ==
    /\ wk[w].pc = "error"
    /\ table' = update_feed_on_error(table, wk[w].cur.feed_id, wk[w].exc, isoformat(wk[w].time))
    /\ wk' = [wk EXCEPT ![w] = [wk[w] EXCEPT !.pc = "delete", !.ev = @ \cup {"onfailure"}]]
    /\ UNCHANGED <<queue, nextMsg, deleted, clock, faults, reg, sched, hist, live>>

\* lines 237-242: update_feed_on_error, print, continue; an exception raised
\* inside the except clause ends the invocation
UpdateError(w) ==
    /\ wk[w].pc = "error"
    /\ LET l == wk[w] IN
         \/ /\ table' = update_feed_on_error(table, l.cur.feed_id, l.exc, isoformat(l.time))
            /\ wk' = [wk EXCEPT ![w] = Continue([l EXCEPT !.ev = @ \cup {"onfailure"}])]
            /\ UNCHANGED faults
         \/ /\ faults < MaxFaults
            /\ faults' = faults + 1
            /\ wk' = [wk EXCEPT ![w] = [Continue(l) EXCEPT !.pc = "idle", !.records = <<>>,
                                                           !.status = "raised"]]
            /\ UNCHANGED table
    /\ UNCHANGED <<queue, nextMsg, deleted, clock, reg, sched, hist, live>>

\* lines 245-246
DeleteMessage(w) ==
    /\ wk[w].pc = "delete"
    /\ queue' = queue \ {wk[w].cur}
    /\ deleted' = [deleted EXCEPT ![wk[w].cur.id] = @ + 1]
    /\ wk' = [wk EXCEPT ![w] = Continue([wk[w] EXCEPT !.ev = @ \cup {"deleted"}])]
    /\ UNCHANGED <<table, nextMsg, clock, faults, reg, sched, hist, live>>

\* the loop is exhausted: the handler returns
Return(w) ==
    /\ wk[w].pc = "loop"
    /\ wk[w].records = <<>>
    /\ wk' = [wk EXCEPT ![w] = [WkIdle EXCEPT !.status = "returned", !.errors = wk[w].errors]]
    /\ UNCHANGED <<table, queue, nextMsg, deleted, clock, faults, reg, sched, hist, live>>

\* The invocation is interrupted where it stands (timeout, crash) before the
\* message is deleted; the queue delivers the message again and the new
\* invocation parses the same document.
Redeliver(w) ==
    /\ wk[w].pc \in {"get", "write", "success", "error", "delete", "loop"}
    /\ wk[w].cur \in queue
    /\ clock < MaxPolls
    /\ clock' = clock + 1
    /\ LET l == wk[w] IN
         \E items \in feed_items(l.cur.feed_id, l.doc) :
            wk' = [wk EXCEPT ![w] = [WkIdle EXCEPT
                      !.pc = "get", !.status = "running", !.cur = l.cur, !.time = Now,
                      !.doc = l.doc, !.items = items,
                      !.prev = [doc |-> l.doc, ok |-> FALSE],
                      !.ev = {"interrupted:" \o l.pc}
                               \cup (IF l.pc = "write" /\ l.puts > 0 THEN {"partial"} ELSE {})]]
    /\ UNCHANGED <<table, queue, nextMsg, deleted, faults, reg, sched, hist, live>>

\* ------------------------------------------------------ stream_handler
\* a record of the table's stream: the INSERT of the item under key; of the
\* new image, the attributes the handler reads (never modified after the insert)
StreamRecord(t, key) ==
    [ event_name |-> "INSERT", keys |-> key,
      new_image |-> [a \in DOMAIN t[key] \cap {"PK", "feed_url"} |-> t[key][a].S] ]

\* the inserts the stream can deliver: metadata records and uniqueness markers
StreamKeys(t) == MetaRecords(t) \cup Markers(t)

\* lines 173-175: the record is the insert of a feed's metadata
IsFeedInsert(record) ==
    /\ record.event_name = "INSERT"
    /\ begins_with(record.keys[1], "FEED#") /\ begins_with(record.keys[2], "META#")

ErrKeyError == "KeyError: feed_url"

\* the stream hands event.records to the handler: inserted records, each once
StreamInvoke(w) ==
    /\ w \in live
    /\ wk[w].pc = "idle"
    /\ \E n \in 1..MaxBatch : \E keys \in [1..n -> StreamKeys(table)] :
         /\ \A i, j \in 1..n : keys[i] = keys[j] => i = j
         /\ wk' = [wk EXCEPT ![w] = [WkIdle EXCEPT !.pc = "loop", !.status = "running",
                        !.records = [i \in 1..n |-> StreamRecord(table, keys[i])]]]
    /\ UNCHANGED <<table, queue, nextMsg, deleted, clock, faults, reg, sched, hist, live>>

\* lines 170-176: a record that is not the insert of a feed's metadata is passed over
StreamSkip(w) ==
    /\ wk[w].pc = "loop"
    /\ wk[w].records # <<>>
    /\ ~IsFeedInsert(Head(wk[w].records))
    /\ wk' = [wk EXCEPT ![w] = Continue([wk[w] EXCEPT !.records = Tail(@), !.cur = NoMsg,
                                                      !.ev = {}, !.puts = 0])]
    /\ UNCHANGED <<table, queue, nextMsg, deleted, clock, faults, reg, sched, hist, live>>

\* lines 178-192: feed_id and feed_url of the new image, feedparser.parse; a
\* bozo document ends the invocation with the 400 response
StreamFetch(w) ==
    /\ wk[w].pc = "loop"
    /\ wk[w].records # <<>>
    /\ IsFeedInsert(Head(wk[w].records))
    /\ clock < MaxPolls
    /\ clock' = clock + 1
    /\ LET record == Head(wk[w].records)
           l == [wk[w] EXCEPT !.records = Tail(@), !.time = Now, !.ev = {}, !.puts = 0,
                              !.cur = Message(0, record.new_image.PK[2],
                                              Get(record.new_image, "feed_url", ""))]
       IN  IF "feed_url" \notin DOMAIN record.new_image
           THEN wk' = [wk EXCEPT ![w] = [Continue(l) EXCEPT !.pc = "idle", !.status = "raised",
                                                            !.errors = @ \cup {ErrKeyError}]]
           ELSE \/ wk' = [wk EXCEPT ![w] = [Continue(l) EXCEPT !.pc = "idle", !.ev = {"bozo"},
                                                               !.status = "invalid"]]
                \/ \E doc \in Docs : \E items \in feed_items(l.cur.feed_id, doc) :
                     wk' = [wk EXCEPT ![w] = [l EXCEPT !.pc = "get", !.doc = doc, !.items = items,
                                                       !.prev = hist[l.cur.feed_id]]]
    /\ UNCHANGED <<table, queue, nextMsg, deleted, faults, reg, sched, hist, live>>

\* line 193: update_feed_on_success, then the next record
StreamUpdateSuccess(w) ==
    /\ wk[w].pc = "success"
    /\ LET l == wk[w] IN
         \/ /\ table' = update_feed_on_success(table, l.cur.feed_id, isoformat(l.time))
            /\ wk' = [wk EXCEPT ![w] = Continue([l EXCEPT !.ev = @ \cup {"success_ok"}])]
            /\ UNCHANGED faults
         \/ /\ faults < MaxFaults
            /\ faults' = faults + 1
            /\ wk' = [wk EXCEPT ![w] = Raise(l, ErrUpdateItem, "success_err")]
            /\ UNCHANGED table
    /\ UNCHANGED <<queue, nextMsg, deleted, clock, reg, sched, hist, live>>

\* lines 194-210: a ClientError is recorded and printed and the loop goes on;
\* any other exception, and one raised by update_feed_on_error, leaves the handler
StreamUpdateError(w) ==
    /\ wk[w].pc = "error"
    /\ LET l == wk[w] IN
         \/ /\ l.exc = ErrEmptyKeys           \* ParamValidationError is no ClientError
            /\ wk' = [wk EXCEPT ![w] = [Continue(l) EXCEPT !.pc = "idle", !.status = "raised"]]
            /\ UNCHANGED <<table, faults>>
         \/ /\ l.exc # ErrEmptyKeys
            /\ table' = update_feed_on_error(table, l.cur.feed_id, l.exc, isoformat(l.time))
            /\ wk' = [wk EXCEPT ![w] = Continue([l EXCEPT !.ev = @ \cup {"onfailure"}])]
            /\ UNCHANGED faults
         \/ /\ l.exc # ErrEmptyKeys
            /\ faults < MaxFaults
            /\ faults' = faults + 1
            /\ wk' = [wk EXCEPT ![w] = [Continue(l) EXCEPT !.pc = "idle", !.status = "raised"]]
            /\ UNCHANGED table
    /\ UNCHANGED <<queue, nextMsg, deleted, clock, reg, sched, hist, live>>

\* line 212: the loop is exhausted, the 200 response
StreamReturn(w) ==
    /\ wk[w].pc = "loop"
    /\ wk[w].records = <<>>
    /\ wk' = [wk EXCEPT ![w] = [WkIdle EXCEPT !.status = "returned", !.errors = wk[w].errors]]
    /\ UNCHANGED <<table, queue, nextMsg, deleted, clock, faults, reg, sched, hist, live>>

\* ------------------------------------------------ feed_scheduler/index.py
\* lines 21-26
PERIOD_TO_SECONDS == [hourly |-> 3600, daily |-> 86400, weekly |-> 604800, monthly |-> 2592000]

\* boto3 resource API: an item with plain Python values
Unwrap(av) == IF "S" \in DOMAIN av THEN av.S
              ELSE IF "N" \in DOMAIN av THEN av.N
              ELSE IF "SS" \in DOMAIN av THEN av.SS
              ELSE av.BOOL
Plain(item) == [a \in DOMAIN item |-> Unwrap(item[a])]

\* lines 41-45: the scan and its FilterExpression
scan(t) == {k \in DOMAIN t : begins_with(k[1], "FEED#") /\ begins_with(k[2], "SCHEDULE#")}

\* int() of the decimal strings in use; other strings raise ValueError
Decimals == <<"1", "2", "3">>
IsDecimal(v) == \E n \in DOMAIN Decimals : Decimals[n] = v
int(v) == CHOOSE n \in DOMAIN Decimals : Decimals[n] = v

\* line 63
polling_interval(item) ==
    LET update_period == IF "update_period" \in DOMAIN item THEN item.update_period ELSE "hourly"
        update_frequency == IF "update_frequency" \in DOMAIN item THEN int(item.update_frequency) ELSE 1
    IN  (IF update_period \in DOMAIN PERIOD_TO_SECONDS THEN PERIOD_TO_SECONDS[update_period] ELSE 3600)
        * update_frequency

\* a feed is due only after the next polling time
is_due_Strict(item, current_time) == current_time > item.last_polled[2] + polling_interval(item)

\* lines 66-72
is_due(item, current_time) == current_time >= item.last_polled[2] + polling_interval(item)

\* lines 48-80: the loop over response["Items"]; an exception ends it, the
\* messages sent before stay sent
RECURSIVE scheduler_loop(_, _)
scheduler_loop(items, current_time) ==
    IF items = <<>> THEN [sent |-> <<>>, status |-> "ok"]
    ELSE LET item == Head(items) IN
         IF "feed_url" \notin DOMAIN item \/ "last_polled" \notin DOMAIN item
         THEN [sent |-> <<>>, status |-> "KeyError"]
         ELSE IF item.last_polled[1] # SchedulerFormat
         THEN [sent |-> <<>>, status |-> "ValueError"]
         ELSE IF "update_frequency" \in DOMAIN item /\ ~IsDecimal(item.update_frequency)
         THEN [sent |-> <<>>, status |-> "ValueError"]
         ELSE LET rest == scheduler_loop(Tail(items), current_time)
                  body == [feed_id |-> item.PK[2], feed_url |-> item.feed_url]
              IN  [sent |-> (IF is_due(item, current_time) THEN <<body>> ELSE <<>>) \o rest.sent,
                   status |-> rest.status]

NoSched == [status |-> "none", sent |-> <<>>]

\* lines 31-80: one run of the scheduler on the timer
SchedulerRun ==
    /\ \E order \in ListsOfSet(scan(table)) :
         LET out == scheduler_loop([i \in DOMAIN order |-> Plain(table[order[i]])], Now) IN
           /\ nextMsg + Len(out.sent) <= MaxMsgs
           /\ queue' = send_messages(queue, nextMsg, out.sent)
           /\ nextMsg' = nextMsg + Len(out.sent)
           /\ sched' = [status |-> out.status, sent |-> out.sent]
    /\ UNCHANGED <<table, deleted, clock, faults, reg, wk, hist, live>>

\* ---------------------------------------------------------- specification
\* One queue consumer at a time (workers), one registration request, the
\* scheduler and the producers of tasks for registered feeds.
InitWith(workers) ==
    /\ table = <<>>
    /\ queue = {}
    /\ nextMsg = 0
    /\ deleted = [m \in 1..(MaxMsgs + 1) |-> 0]
    /\ clock = 0
    /\ faults = 0
    /\ reg = [r \in Registrars |-> RegIdle]
    /\ wk = [w \in Workers |-> WkIdle]
    /\ sched = NoSched
    /\ hist = [f \in FeedIds |-> NoRun]
    /\ live = workers

Init == InitWith({"w1"})

Next ==
    \/ CreateFeedParse("r1", {"u1"})
    \/ CreateFeedStore("r1")
    \/ SendTask(Registered(table))
    \/ SchedulerRun
    \/ \E w \in Workers : Invoke(w)
    \/ \E w \in Workers : Fetch(w)
    \/ \E w \in Workers : BatchGet(w)
    \/ \E w \in Workers : BatchWrite(w)
    \/ \E w \in Workers : UpdateSuccess(w)
    \/ \E w \in Workers : UpdateError(w)
    \/ \E w \in Workers : DeleteMessage(w)
    \/ \E w \in Workers : Return(w)

Spec == Init /\ [][Next]_vars

\* Tasks that also name a feed_id no registration created
NextUnregistered ==
    \/ CreateFeedParse("r1", {"u1"})
    \/ CreateFeedStore("r1")
    \/ SendTask(Registered(table) \cup {GhostId})
    \/ \E w \in Workers : Invoke(w)
    \/ \E w \in Workers : Fetch(w)
    \/ \E w \in Workers : BatchGet(w)
    \/ \E w \in Workers : BatchWrite(w)
    \/ \E w \in Workers : UpdateSuccess(w)
    \/ \E w \in Workers : UpdateError(w)
    \/ \E w \in Workers : DeleteMessage(w)
    \/ \E w \in Workers : Return(w)

SpecUnregistered == Init /\ [][NextUnregistered]_vars

\* Registration, polling and a delete_feed request for any feed id
NextDelete ==
    \/ CreateFeedParse("r1", {"u1"})
    \/ CreateFeedStore("r1")
    \/ DeleteFeed("r2", FeedIds)
    \/ SendTask(Registered(table))
    \/ \E w \in Workers : Invoke(w)
    \/ \E w \in Workers : Fetch(w)
    \/ \E w \in Workers : BatchGet(w)
    \/ \E w \in Workers : BatchWrite(w)
    \/ \E w \in Workers : UpdateSuccess(w)
    \/ \E w \in Workers : UpdateError(w)
    \/ \E w \in Workers : DeleteMessage(w)
    \/ \E w \in Workers : Return(w)

SpecDelete == Init /\ [][NextDelete]_vars

\* Registration and deletion: create_feed requests for the urls before and
\* after a delete_feed request
NextRecreate ==
    \/ \E r \in {"r1", "r3"} : CreateFeedParse(r, Urls)
    \/ \E r \in {"r1", "r3"} : CreateFeedStore(r)
    \/ DeleteFeed("r2", FeedIds)

SpecRecreate == Init /\ [][NextRecreate]_vars

\* Registration alone: concurrent create_feed requests for the urls
NextReg ==
    \/ \E r \in Registrars : CreateFeedParse(r, Urls)
    \/ \E r \in Registrars : CreateFeedStore(r)

SpecReg == Init /\ [][NextReg]_vars

\* The stream consumer: two registrations insert metadata records and markers,
\* the stream delivers the inserts to stream_handler
NextStream ==
    \/ CreateFeedParse("r1", {"u1"})
    \/ CreateFeedParse("r2", {"u2"})
    \/ \E r \in {"r1", "r2"} : CreateFeedStore(r)
    \/ \E w \in Workers : StreamInvoke(w)
    \/ \E w \in Workers : StreamSkip(w)
    \/ \E w \in Workers : StreamFetch(w)
    \/ \E w \in Workers : BatchGet(w)
    \/ \E w \in Workers : BatchWrite(w)
    \/ \E w \in Workers : StreamUpdateSuccess(w)
    \/ \E w \in Workers : StreamUpdateError(w)
    \/ \E w \in Workers : StreamReturn(w)

SpecStream == Init /\ [][NextStream]_vars

\* store_feed_items on a generated document of n entries with distinct guids:
\* the state of feed_message_handler after feedparser.parse of the task of a
\* registered feed
GenEntry(i) == [guid |-> PyStr(ToString(i)), title |-> PyStr("A")]
GenDoc(n) == [i \in 1..n |-> GenEntry(i)]

\* feed_message_handler has parsed doc for the task of the registered feed
\* f1; the first k items of doc were stored by an earlier poll
InitPoll(doc, k) ==
    /\ queue = {Message(1, "f1", "u1")}
    /\ nextMsg = 1
    /\ deleted = [m \in 1..(MaxMsgs + 1) |-> 0]
    /\ clock = 1
    /\ faults = 0
    /\ reg = [r \in Registrars |-> IF r = "r1"
                 THEN [RegIdle EXCEPT !.pc = "done", !.url = "u1",
                                      !.feed = CHOOSE feed \in RegFeeds : TRUE,
                                      !.resp = Response(200, "Feed added successfully")]
                 ELSE RegIdle]
    /\ \E items \in feed_items("f1", doc) :
         /\ table = batch_write_item(
                        store_feed_metadata(<<>>, "f1", "u1", CHOOSE feed \in RegFeeds : TRUE),
                        SubSeq(items, 1, k))
         /\ wk = [w \in Workers |-> IF w = "w1"
                    THEN [WkIdle EXCEPT !.pc = "get", !.status = "running",
                                        !.cur = Message(1, "f1", "u1"),
                                        !.doc = doc, !.items = items]
                    ELSE WkIdle]
    /\ sched = NoSched
    /\ hist = [f \in FeedIds |-> NoRun]
    /\ live = {"w1"}

InitStore == \E n \in 0..MaxEntries : \E k \in 0..n : InitPoll(GenDoc(n), k)

NextStore ==
    \/ \E w \in Workers : BatchGet(w)
    \/ \E w \in Workers : BatchWrite(w)
    \/ \E w \in Workers : UpdateSuccess(w)
    \/ \E w \in Workers : UpdateError(w)
    \/ \E w \in Workers : DeleteMessage(w)
    \/ \E w \in Workers : Return(w)

SpecStore == InitStore /\ [][NextStore]_vars

\* store_feed_items on documents of one or two entries with every combination
\* of guid, id and link present
IdentityFields == {"guid", "id", "link"}
KeyEntry(j, fields) ==
    [f \in fields \cup {"title"} |-> IF f = "title" THEN PyStr("A") ELSE PyStr(f \o ToString(j))]
KeyDocs ==
    {<<KeyEntry(1, fs)>> : fs \in SUBSET IdentityFields}
        \cup {<<KeyEntry(1, fs), KeyEntry(2, gs)>> : fs \in SUBSET IdentityFields,
                                                     gs \in SUBSET IdentityFields}

InitKeys == \E doc \in KeyDocs : InitPoll(doc, 0)

SpecKeys == InitKeys /\ [][NextStore]_vars

\* store_feed_items with interruptions and redeliveries, on documents of one,
\* two and three write batches
InitRetry == \E n \in {1, 26, MaxEntries} : InitPoll(GenDoc(n), 0)

NextRetry ==
    \/ NextStore
    \/ \E w \in Workers : Redeliver(w)

SpecRetry == InitRetry /\ [][NextRetry]_vars

\* store_feed_items on documents of about a hundred entries, none or the first
\* 25 stored by an earlier poll
InitLookup == \E n \in 90..101 : \E k \in {0, 25} : InitPoll(GenDoc(n), k)

SpecLookup == InitLookup /\ [][NextStore]_vars

\* Two invocations of feed_message_handler hold one task each for the
\* registered feed f1 and have parsed the same document doc; the items of the
\* document old were stored by an earlier poll
InitRace(doc, old) ==
    /\ queue = {Message(1, "f1", "u1"), Message(2, "f1", "u1")}
    /\ nextMsg = 2
    /\ deleted = [m \in 1..(MaxMsgs + 1) |-> 0]
    /\ clock = 2
    /\ faults = 0
    /\ reg = [r \in Registrars |-> IF r = "r1"
                 THEN [RegIdle EXCEPT !.pc = "done", !.url = "u1",
                                      !.feed = CHOOSE feed \in RegFeeds : TRUE,
                                      !.resp = Response(200, "Feed added successfully")]
                 ELSE RegIdle]
    /\ \E stored \in feed_items("f1", old) :
         table = batch_write_item(
                     store_feed_metadata(<<>>, "f1", "u1", CHOOSE feed \in RegFeeds : TRUE),
                     stored)
    /\ \E items1 \in feed_items("f1", doc) : \E items2 \in feed_items("f1", doc) :
         wk = [w \in Workers |->
                 [WkIdle EXCEPT !.pc = "get", !.status = "running",
                                !.cur = IF w = "w1" THEN Message(1, "f1", "u1")
                                                    ELSE Message(2, "f1", "u1"),
                                !.time = IF w = "w1" THEN 0 ELSE 3600,
                                !.doc = doc,
                                !.items = IF w = "w1" THEN items1 ELSE items2]]
    /\ sched = NoSched
    /\ hist = [f \in FeedIds |-> NoRun]
    /\ live = Workers

\* the document polled and the document of the earlier poll: new entries in
\* two write batches, unchanged entries, categories, a changed entry, two
\* entries of one key
RaceDocs == { <<GenDoc(26), <<>>>>, <<GenDoc(26), GenDoc(1)>>, <<GenDoc(26), GenDoc(26)>>,
              <<(<<EntryT>>), <<>>>>, <<(<<EntryT>>), <<EntryT>>>>,
              <<(<<EntryB>>), <<EntryA>>>>, <<(<<EntryA, EntryB>>), <<>>>> }

InitConcurrent == \E p \in RaceDocs : InitRace(p[1], p[2])

SpecConcurrent == InitConcurrent /\ [][NextStore]_vars

\* store_feed_items when a batch write can come back partly unprocessed, on
\* documents of one and two write batches
InitPartial == \E n \in {2, 26} : \E k \in {0, 1} : InitPoll(GenDoc(n), k)

NextPartial ==
    \/ NextStore
    \/ \E w \in Workers : BatchWriteUnprocessed(w)

SpecPartial == InitPartial /\ [][NextPartial]_vars

\* The scheduler alone, on one record its scan returns.  The record's
\* attributes and the time of the run are the inputs.
DueHours == {0, 1, 2, 3, 23, 24, 25, 47, 48, 49, 168, 336, 720, 1440}
DueLastPolled == {<<SchedulerFormat, 0>>, <<SchedulerFormat, 1>>, <<IsoFormat, 0>>}
DuePeriods == {"hourly", "daily", "weekly", "monthly", "yearly"}
DueFrequencies == {"1", "2", "many"}
Optional(S) == {{}} \cup {{x} : x \in S}
ScheduleKey(id) == <<FeedPK(id), <<"SCHEDULE#", id>>>>
ScheduleItem(id, lp, period, freq) ==
    LET base == [ PK |-> [S |-> FeedPK(id)], SK |-> [S |-> <<"SCHEDULE#", id>>],
                  feed_url |-> [S |-> "u1"] ]
        opt == [ last_polled |-> lp, update_period |-> period, update_frequency |-> freq ]
    IN  [a \in DOMAIN base \cup {b \in DOMAIN opt : opt[b] # {}} |->
            IF a \in DOMAIN base THEN base[a] ELSE [S |-> CHOOSE x \in opt[a] : TRUE]]

InitDue ==
    /\ \E lp \in Optional(DueLastPolled), period \in Optional(DuePeriods),
          freq \in Optional(DueFrequencies) :
         table = (ScheduleKey("f1") :> ScheduleItem("f1", lp, period, freq))
    /\ clock \in DueHours
    /\ queue = {}
    /\ nextMsg = 0
    /\ deleted = [m \in 1..(MaxMsgs + 1) |-> 0]
    /\ faults = 0
    /\ reg = [r \in Registrars |-> RegIdle]
    /\ wk = [w \in Workers |-> WkIdle]
    /\ sched = NoSched
    /\ hist = [f \in FeedIds |-> NoRun]
    /\ live = {}

NextDue == SchedulerRun

SpecDue == InitDue /\ [][NextDue]_vars

TypeOK == clock \in 0..MaxPolls /\ nextMsg \in 0..MaxMsgs /\ faults \in 0..MaxFaults

\* ------------------------------------------------------------------ claims
HasMeta(id) == Exists(table, MetaKey(id))
MetaOf(id) == table[MetaKey(id)]
ErrorCount(t, id) ==
    IF Exists(t, MetaKey(id)) /\ "error_count" \in DOMAIN t[MetaKey(id)]
    THEN t[MetaKey(id)].error_count.N ELSE 0
ItemsOf(t) == [k \in ItemRecords(t) |-> t[k]]
ErrorEvents == {"bozo", "get_err", "write_err", "success_err"}
\* worker w has just taken a record whose fetch failed
FetchFailed(w) == wk'[w] # wk[w] /\ wk'[w].ev = {"bozo"}

\* C1: a second poll of a feed on the unchanged document, right after a first
\* poll whose writes all succeeded, issues no item put request.
C1_SecondRunIssuesNoPut ==
    \A w \in Workers :
        (wk[w].pc = "success" /\ wk[w].prev = [doc |-> wk[w].doc, ok |-> TRUE])
            => wk[w].puts = 0

\* C2: at most one META record per feed_url; a create_feed that found the
\* marker of its url is not answered 200; of the registrations of a url that
\* started without a marker and reached the transaction's verdict, exactly
\* one is answered 200 and the others get the conflict response.
MetasOfUrl(url) ==
    {k \in MetaRecords(table) : "feed_url" \in DOMAIN table[k] /\ table[k].feed_url.S = url}
Conflict == Response(400, "already exists or another condition failed")
Added == Response(200, "Feed added successfully")
Verdicts(url) ==
    {r \in Registrars : reg[r].pc = "done" /\ reg[r].url = url /\ reg[r].resp \in {Added, Conflict}}
C2_OneFeedPerUrl ==
    /\ \A url \in Urls : Cardinality(MetasOfUrl(url)) <= 1
    /\ \A url \in Urls : Cardinality(MetasOfUrl(url)) = 1 <=> Exists(table, MarkerKey(url))
    /\ \A r \in Registrars : (reg[r].pc = "done" /\ reg[r].saw) => reg[r].resp # Added
    /\ \A url \in Urls :
         Verdicts(url) # {} => Cardinality({r \in Verdicts(url) : reg[r].resp = Added}) = 1
C2_Witness ==
    \E r1, r2 \in Registrars :
        /\ r1 # r2 /\ reg[r1].url = reg[r2].url
        /\ reg[r1].pc = "done" /\ reg[r2].pc = "done"
        /\ ~reg[r1].saw /\ ~reg[r2].saw
        /\ reg[r1].resp = Added /\ reg[r2].resp = Conflict
        /\ Cardinality(MetasOfUrl(reg[r1].url)) = 1

\* C3: processing a task whose fetch failed increments the feed's error_count
\* by exactly 1, stores the failure as last_error_message and writes no item.
C3_FetchFailureRecorded ==
    [][\A w \in Workers : FetchFailed(w) =>
          LET f == wk'[w].cur.feed_id IN
            /\ ErrorCount(table', f) = ErrorCount(table, f) + 1
            /\ Exists(table', MetaKey(f))
            /\ "last_error_message" \in DOMAIN table'[MetaKey(f)]
            /\ ItemsOf(table') = ItemsOf(table)]_vars

\* C4 (as stated): after any poll whose item persistence succeeded the META
\* record has error_count = 0, last_error_message = "" and last_polled = the
\* time of the poll.
HealthyAt(id, time) ==
    /\ HasMeta(id)
    /\ {"error_count", "last_error_message", "last_polled"} \subseteq DOMAIN MetaOf(id)
    /\ MetaOf(id).error_count = [N |-> 0]
    /\ MetaOf(id).last_error_message = [S |-> ""]
    /\ MetaOf(id).last_polled = [S |-> isoformat(time)]
C5_LastPolledAdvances ==
    \A w \in Workers :
        (wk[w].pc = "loop" /\ wk[w].cur # NoMsg)
            => /\ HasMeta(wk[w].cur.feed_id)
               /\ "last_polled" \in DOMAIN MetaOf(wk[w].cur.feed_id)
               /\ MetaOf(wk[w].cur.feed_id).last_polled = [S |-> isoformat(wk[w].time)]

\* the base durations and the due rule, as the specification states them
StatedBase(period) ==
    CASE period = "hourly" -> 3600 [] period = "daily" -> 86400
      [] period = "weekly" -> 604800 [] period = "monthly" -> 2592000 [] OTHER -> 3600
StatedFrequency(item) ==
    IF "update_frequency" \notin DOMAIN item THEN 1
    ELSE CASE item.update_frequency.S = "1" -> 1 [] item.update_frequency.S = "2" -> 2
           [] item.update_frequency.S = "3" -> 3
StatedPeriod(item) == IF "update_period" \in DOMAIN item THEN item.update_period.S ELSE "hourly"
StatedDue(item, now) ==
    \/ "last_polled" \notin DOMAIN item
    \/ now >= item.last_polled.S[2] + StatedBase(StatedPeriod(item)) * StatedFrequency(item)
TasksFor(msgs, id) == {m \in msgs : m.feed_id = id}

\* C6: a scheduler run enqueues exactly one FetchTask {feed_id, feed_url} for
\* every META record that is due, and none for a feed that is not due.
C6_OneTaskPerDueFeed ==
    [][sched' # sched =>
          \A id \in UuidPool : HasMeta(id) /\ "feed_url" \in DOMAIN MetaOf(id) =>
              LET tasks == TasksFor(queue' \ queue, id) IN
                IF StatedDue(MetaOf(id), Now)
                THEN Cardinality(tasks) = 1
                     /\ \A m \in tasks : m.feed_url = MetaOf(id).feed_url.S
                ELSE tasks = {}]_vars

\* C7: on a record whose run completes the scheduler enqueues the feed exactly
\* when now >= last_polled + base(update_period) * update_frequency, with
\* hourly=3600, daily=86400, weekly=604800, monthly=2592000 and 3600 for any
\* other period; daily x 2 is not due after 47h and due after 49h.
DueItem == table[ScheduleKey("f1")]
DueSent == \E i \in DOMAIN sched.sent : sched.sent[i].feed_id = "f1"
C8_UnpolledFeedEnqueued ==
    [][sched' # sched =>
          \A id \in UuidPool :
              (HasMeta(id) /\ "feed_url" \in DOMAIN MetaOf(id) /\ "last_polled" \notin DOMAIN MetaOf(id))
                  => sched'.status = "ok" /\ TasksFor(queue' \ queue, id) # {}]_vars

\* C9: the handler deletes a message only after persistence and the success
\* update for it completed without error; it never deletes a message whose
\* fetch or persistence failed; a successfully processed message is deleted
\* exactly once.
C9_DeleteOnlyAfterSuccess ==
    /\ \A w \in Workers :
         /\ "deleted" \in wk[w].ev =>
                {"stored", "success_ok"} \subseteq wk[w].ev /\ wk[w].ev \cap ErrorEvents = {}
         /\ (wk[w].ev \cap ErrorEvents # {} /\ wk[w].pc # "idle") =>
                wk[w].cur \in queue /\ deleted[wk[w].cur.id] = 0 /\ wk[w].pc # "delete"
         /\ (wk[w].pc = "loop" /\ "success_ok" \in wk[w].ev) =>
                wk[w].cur \notin queue /\ deleted[wk[w].cur.id] = 1
    /\ \A m \in DOMAIN deleted : deleted[m] <= 1
    /\ \A m \in queue : deleted[m.id] = 0
C9_Witness ==
    \E w \in Workers :
        /\ wk[w].pc = "loop" /\ wk[w].ev = {"stored", "success_ok", "deleted"}
        /\ deleted[wk[w].cur.id] = 1 /\ wk[w].cur \notin queue
        /\ \E m \in queue : deleted[m.id] = 0 /\ m.id < wk[w].cur.id

\* C10: an invocation in which a poll hit a persistence error (a failed
\* batch_get_item, batch_write_item or update_item) does not complete normally.
PersistenceErrors == {ErrBatchGet, ErrBatchWrite, ErrUpdateItem}
C10_PersistenceErrorResurfaced ==
    \A w \in Workers : wk[w].status = "returned" => wk[w].errors \cap PersistenceErrors = {}

\* C11: when an invocation of the stream handler has ended, whatever failed for
\* one feed's record, no record of another feed in the same event is left
\* unprocessed.
C11_OtherFeedsStillProcessed ==
    \A w \in Workers :
        (wk[w].pc = "idle" /\ wk[w].status # "none")
            => \A i \in DOMAIN wk[w].records :
                   IsFeedInsert(wk[w].records[i])
                       => wk[w].records[i].new_image.PK[2] = wk[w].cur.feed_id

\* the write set in batches of another size, and the table after writing them
KeyOf(item) == <<item.PK.S, item.SK.S>>
RECURSIVE Flatten(_)
Flatten(batches) == IF batches = <<>> THEN <<>> ELSE Head(batches) \o Flatten(Tail(batches))
CeilDiv(n, d) == (n + d - 1) \div d
Partition(items, size) ==
    [i \in 1..CeilDiv(Len(items), size) |->
        SubSeq(items, (i - 1) * size + 1, IF i * size <= Len(items) THEN i * size ELSE Len(items))]
RECURSIVE WriteAll(_, _)
WriteAll(t, batches) ==
    IF batches = <<>> THEN t ELSE WriteAll(batch_write_item(t, Head(batches)), Tail(batches))
OtherSizes == {1, 7, 24, 26, 100}
Without(t, keys) == [k \in DOMAIN t \ keys |-> t[k]]

\* C12: a write set of n items is written with ceil(n/25) batch_write_item
\* calls of 1..25 items each, every item in exactly one call (57 items: 3
\* calls), and the table ends as after writing the write set in batches of any
\* other size.
C12_BatchesOfTwentyFive ==
    \A w \in Workers :
        LET l == wk[w]
            rest == Flatten(l.batches)
            n == l.puts + Len(rest)              \* size of the write set
            written == SubSeq(l.items, Len(l.items) - n + 1, Len(l.items) - Len(rest))
        IN  /\ l.pc = "write" =>
                 /\ \A i \in DOMAIN l.batches : Len(l.batches[i]) \in 1..25
                 /\ rest = SubSeq(l.items, Len(l.items) - Len(rest) + 1, Len(l.items))
                 /\ l.puts % 25 = 0
                 /\ (l.puts \div 25) + Len(l.batches) = CeilDiv(n, 25)
                 /\ n = 57 => (l.puts \div 25) + Len(l.batches) = 3
            /\ (l.pc = "success" /\ l.items # <<>>) =>
                 /\ {KeyOf(l.items[i]) : i \in DOMAIN l.items} = ItemRecords(table)
                 /\ \A i \in DOMAIN l.items : table[KeyOf(l.items[i])] = ToStored(l.items[i])
                 /\ \A size \in OtherSizes :
                      WriteAll(Without(table, {KeyOf(written[i]) : i \in DOMAIN written}),
                               Partition(written, size)) = table
\* 57 items were written in 3 calls
C12_Witness ==
    \E w \in Workers :
        /\ wk[w].pc = "success" /\ wk[w].puts = 57
        /\ Cardinality(ItemRecords(table)) = 57

\* the item key as the specification states it
Representable(entry) == DOMAIN entry \cap {"guid", "id", "link"} # {}
StatedKey(entry) ==
    IF "guid" \in DOMAIN entry THEN entry.guid.str
    ELSE IF "id" \in DOMAIN entry THEN entry.id.str
    ELSE entry.link.str
StatedEntries(doc) == SelectSeq(doc, Representable)

\* C13: the items of a poll are those of the entries with a guid, an id or a
\* link, in order, keyed by the guid, else the id, else the link; an entry
\* with none of the three gives no item, no lookup key and no stored record.
C13_KeyFallback ==
    \A w \in Workers :
        LET l == wk[w]
            entries == StatedEntries(l.doc)
        IN  l.pc \in {"get", "write", "success", "error", "delete"} =>
              /\ Len(l.items) = Len(entries)
              /\ \A i \in DOMAIN l.items :
                    KeyOf(l.items[i]) = ItemKey(l.cur.feed_id, StatedKey(entries[i]))
              /\ (l.pc = "error" /\ l.exc = ErrEmptyKeys) => entries = <<>>
              /\ (l.pc = "error" /\ entries = <<>>) => l.exc = ErrEmptyKeys
              /\ l.pc \in {"success", "delete"} =>
                    ItemRecords(table) =
                        {ItemKey(l.cur.feed_id, StatedKey(entries[i])) : i \in DOMAIN entries}
\* an entry with guid, id and link and an entry with none were polled and stored
C13_Witness ==
    \E w \in Workers :
        /\ wk[w].pc = "success"
        /\ wk[w].doc = <<KeyEntry(1, IdentityFields), KeyEntry(2, {})>>
        /\ ItemRecords(table) = {ItemKey("f1", "guid1")}

\* the write set as stated: the items with no stored record or a stored record
\* with other attributes or values (categories being a set)
StatedWriteSet(items, t) ==
    SelectSeq(items, LAMBDA item : ~Exists(t, KeyOf(item)) \/ t[KeyOf(item)] # ToStored(item))

\* C14: the write set of a poll is exactly the items that have no stored
\* record or differ from it; an item equal to its stored record is not written.
C14_WriteSetIsDelta ==
    \A w \in Workers :
        /\ (wk[w].pc = "write" /\ wk[w].puts = 0)
               => Flatten(wk[w].batches) = StatedWriteSet(wk[w].items, table)
        /\ (wk[w].pc = "success" /\ wk[w].puts = 0)
               => StatedWriteSet(wk[w].items, table) = <<>>

\* the item records after one uninterrupted successful poll of items
StoredItems(items) ==
    [k \in {KeyOf(items[i]) : i \in DOMAIN items} |->
        ToStored(items[CHOOSE i \in DOMAIN items : KeyOf(items[i]) = k])]
Interrupted(l) == \E e \in l.ev : e \in {"interrupted:get", "interrupted:write",
    "interrupted:success", "interrupted:error", "interrupted:delete", "interrupted:loop"}

\* C15: when a task that was interrupted and redelivered has been processed to
\* successful completion on the same document, the item records, error_count
\* and last_error_message are those of one uninterrupted successful run.
C15_RedeliverySafe ==
    \A w \in Workers :
        (wk[w].pc = "delete" /\ Interrupted(wk[w]) /\ "success_ok" \in wk[w].ev)
            => /\ ItemsOf(table) = StoredItems(wk[w].items)
               /\ HasMeta(wk[w].cur.feed_id)
               /\ {"error_count", "last_error_message"} \subseteq DOMAIN MetaOf(wk[w].cur.feed_id)
               /\ MetaOf(wk[w].cur.feed_id).error_count = [N |-> 0]
               /\ MetaOf(wk[w].cur.feed_id).last_error_message = [S |-> ""]
\* completion after an interruption between the batch writes of a poll
C15_Witness ==
    \E w \in Workers :
        /\ wk[w].pc = "delete" /\ "success_ok" \in wk[w].ev
        /\ {"interrupted:write", "partial"} \subseteq wk[w].ev
        /\ wk[w].puts \in 1..(Len(wk[w].items) - 1)
        /\ ItemsOf(table) = StoredItems(wk[w].items)

\* C16: a delete_feed request changes nothing but the status attribute of the
\* feed's META record, which it sets to inactive: item records, markers and the
\* other attributes of the record stay as they are; no step of the system
\* removes an item record.
DeleteResponses == {Response(200, "Feed deleted successfully"), Response(500, "An error occurred")}
SuccessApplied(w) == wk[w].pc = "success" /\ wk'[w].pc = "delete"
ErrorApplied(w) == wk[w].pc = "error" /\ "onfailure" \in wk'[w].ev

\* C17 (as stated): applying update_feed_on_success, and likewise
\* update_feed_on_error, a second time with the same arguments leaves the
\* table as the first application left it.
C17_HealthUpdatesIdempotent ==
    [][\A w \in Workers :
          /\ SuccessApplied(w) =>
                update_feed_on_success(table', wk[w].cur.feed_id, isoformat(wk[w].time)) = table'
          /\ ErrorApplied(w) =>
                update_feed_on_error(table', wk[w].cur.feed_id, wk[w].exc, isoformat(wk[w].time))
                    = table'
      ]_vars
\* C17 (amended): a second application of update_feed_on_success changes
\* nothing; a second application of update_feed_on_error changes nothing but
\* error_count, which it increments by 1 again.
C17_SuccessIdempotentErrorCounts ==
    [][\A w \in Workers :
          /\ SuccessApplied(w) =>
                update_feed_on_success(table', wk[w].cur.feed_id, isoformat(wk[w].time)) = table'
          /\ ErrorApplied(w) =>
                LET f == wk[w].cur.feed_id
                    again == update_feed_on_error(table', f, wk[w].exc, isoformat(wk[w].time))
                IN  /\ DOMAIN again = DOMAIN table'
                    /\ \A k \in DOMAIN again \ {MetaKey(f)} : again[k] = table'[k]
                    /\ DOMAIN again[MetaKey(f)] = DOMAIN table'[MetaKey(f)]
                    /\ \A a \in DOMAIN again[MetaKey(f)] \ {"error_count"} :
                          again[MetaKey(f)][a] = table'[MetaKey(f)][a]
                    /\ ErrorCount(again, f) = ErrorCount(table', f) + 1
                    /\ ErrorCount(table', f) = ErrorCount(table, f) + 1
      ]_vars
\* a failure was recorded on a registered feed: one more application of the
\* same update would count it twice
C17_Witness ==
    \E w \in Workers :
        /\ wk[w].pc = "loop" /\ "onfailure" \in wk[w].ev
        /\ wk[w].cur.feed_id \in Registered(table)
        /\ ErrorCount(table, wk[w].cur.feed_id) = 1
        /\ MetaOf(wk[w].cur.feed_id).last_error_message.S \in PersistenceErrors

\* the item and the stored record have the same set of categories and are
\* equal in every other attribute
SameUpToCategoryOrder(item, stored) ==
    /\ DOMAIN item = DOMAIN stored
    /\ "categories" \in DOMAIN item
    /\ SetOfList(item.categories.SS) = stored.categories.SS
    /\ \A a \in DOMAIN item \ {"categories"} : item[a] = stored[a]

\* C18: an item whose categories are the stored record's set of terms, in
\* whatever order they are enumerated, and whose other fields equal the stored
\* record's is not in the write set.
C18_CategoriesComparedAsSets ==
    \A w \in Workers :
        (wk[w].pc = "write" /\ wk[w].puts = 0) =>
            \A i \in DOMAIN Flatten(wk[w].batches) :
                LET item == Flatten(wk[w].batches)[i] IN
                  ~(Exists(table, KeyOf(item)) /\ SameUpToCategoryOrder(item, table[KeyOf(item)]))

\* the first m items of the poll are stored as normalized and no other item is
StoredPrefix(items, t, m) ==
    /\ ItemRecords(t) = {KeyOf(items[i]) : i \in 1..m}
    /\ \A i \in 1..m : t[KeyOf(items[i])] = ToStored(items[i])

\* C19: when a batch write of a poll fails, the batches written before it stay
\* stored as written, the poll writes no further item, and the except clause
\* records the failure on the feed (error_count + 1, the error's message)
\* unless that update itself is refused.
C19_NoRollbackOnBatchFailure ==
    [][\A w \in Workers :
          LET l == wk[w]
              f == l.cur.feed_id
              m == Cardinality(ItemRecords(table))
          IN  /\ (l.pc = "write" /\ wk'[w].pc = "error") =>
                    /\ wk'[w].exc = ErrBatchWrite
                    /\ table' = table
                    /\ l.puts = 25 * (CeilDiv(Len(l.items) - (m - l.puts), 25) - Len(l.batches))
                    /\ m >= l.puts /\ m < Len(l.items)
                    /\ StoredPrefix(l.items, table', m)
              /\ "write_err" \in l.ev =>
                    /\ ItemsOf(table') = ItemsOf(table)
                    /\ l.pc = "error" =>
                          \/ /\ wk'[w].pc = "loop" /\ "onfailure" \in wk'[w].ev
                             /\ ErrorCount(table', f) = ErrorCount(table, f) + 1
                             /\ table'[MetaKey(f)].last_error_message = [S |-> ErrBatchWrite]
                          \/ /\ wk'[w].pc = "idle" /\ wk'[w].status = "raised"
                             /\ faults' = faults + 1
      ]_vars
\* the third batch of a poll of 57 new items failed and the failure was recorded
C19_Witness ==
    \E w \in Workers :
        /\ wk[w].pc = "loop" /\ {"write_err", "onfailure"} \subseteq wk[w].ev
        /\ wk[w].puts = 50
        /\ Cardinality(ItemRecords(table)) = 50
        /\ ErrorCount(table, wk[w].cur.feed_id) = 1
        /\ MetaOf(wk[w].cur.feed_id).last_error_message = [S |-> ErrBatchWrite]

\* C20: no lookup of a poll is refused for carrying more than 100 keys, and
\* a poll of a document of more than 100 entries gets past its lookup.
C20_LookupWithinKeyLimit ==
    \A w \in Workers :
        /\ wk[w].exc # ErrTooManyKeys
        /\ ErrTooManyKeys \notin wk[w].errors
        /\ Len(wk[w].items) > 100 => wk[w].pc \in {"get", "write", "success", "delete"}

\* C21: no poll fails because entries of its document were dropped: the lookup
\* of a document whose entries are all dropped (or that has none) is not
\* refused, and once success is recorded every entry that was not dropped is
\* stored as its item.
C21_DroppedEntriesNotFatal ==
    \A w \in Workers :
        LET l == wk[w] IN
        /\ l.exc # ErrEmptyKeys
        /\ ErrEmptyKeys \notin l.errors
        /\ l.pc = "delete" =>
              \A i \in DOMAIN l.items :
                  /\ Exists(table, KeyOf(l.items[i]))
                  /\ table[KeyOf(l.items[i])] = ToStored(l.items[i])

NoRepeat(q) == \A i, j \in DOMAIN q : q[i] = q[j] => i = j

\* C22: the key list of a poll's lookup and each of its batch writes hold
\* every (PK, SK) at most once, and no lookup is refused for repeating a key.
C22_KeysAtMostOnce ==
    \A w \in Workers :
        LET l == wk[w] IN
        /\ NoRepeat(batch_keys(l.items))
        /\ \A b \in DOMAIN l.batches : NoRepeat(batch_keys(l.batches[b]))
        /\ l.exc # ErrDuplicateKeys

\* both tasks of the feed were processed to the end and their messages deleted
BothProcessed == deleted[1] = 1 /\ deleted[2] = 1

\* C23: when two tasks of one feed have been processed concurrently on the
\* same document, the item records are those one run leaves: one record per
\* item key, equal to the normalized item.
C23_ConcurrentRunsAsOne ==
    BothProcessed =>
        \E items \in feed_items("f1", hist["f1"].doc) : ItemsOf(table) = StoredItems(items)
\* both runs looked up before either had written everything, and both wrote
C23_Witness ==
    /\ BothProcessed
    /\ \A w \in Workers : wk[w].pc = "loop" /\ wk[w].puts > 0 /\ "deleted" \in wk[w].ev
    /\ Cardinality(ItemRecords(table)) = 26
    /\ \E items \in feed_items("f1", hist["f1"].doc) : ItemsOf(table) = StoredItems(items)

\* C24: every feed metadata record carries a feed_url whose uniqueness marker
\* exists, as registration wrote it; no health update and no delete_feed
\* creates a metadata record.
C24_MetaOnlyByRegistration ==
    \A k \in MetaRecords(table) :
        /\ "feed_url" \in DOMAIN table[k]
        /\ Exists(table, MarkerKey(table[k].feed_url.S))

\* the one task of worker w ended with update_feed_on_error applied
FailedDone(w) ==
    /\ wk[w].errors # {}
    /\ (wk[w].pc = "loop" \/ wk[w].status = "returned")
\* worker w has not reached a health update yet
BeforeHealth(w) == wk[w].pc \in {"get", "write", "success", "error"} /\ wk[w].errors = {}
ErrorSteps == {w \in Workers : "onfailure" \in wk'[w].ev /\ "onfailure" \notin wk[w].ev}
SuccessSteps == {w \in Workers : "success_ok" \in wk'[w].ev /\ "success_ok" \notin wk[w].ev}

\* C25: error_count is never negative; each update_feed_on_error adds one to
\* it, each update_feed_on_success sets it to 0 and no other step changes it,
\* so that two concurrent failed polls of a registered feed leave it at 2.
C25_NoLostIncrement ==
    /\ [](ErrorCount(table, "f1") >= 0)
    /\ []((\A w \in Workers : FailedDone(w)) => ErrorCount(table, "f1") = 2)
    /\ [][ IF ErrorSteps # {} THEN ErrorCount(table', "f1") = ErrorCount(table, "f1") + 1
           ELSE IF SuccessSteps # {} THEN ErrorCount(table', "f1") = 0
           ELSE ErrorCount(table', "f1") = ErrorCount(table, "f1") ]_vars
\* both polls have failed and recorded it, the second on top of the first
C25_Witness ==
    /\ \A w \in Workers : FailedDone(w) /\ "onfailure" \in wk[w].ev
    /\ ErrorCount(table, "f1") = 2

\* C26: at the moment a poll has recorded success, every item of the polled
\* document has its record in the table, equal to the normalized item.
C26_SuccessMeansStored ==
    \A w \in Workers :
        (wk[w].pc = "delete" /\ "success_ok" \in wk[w].ev) =>
            \A i \in DOMAIN wk[w].items :
                /\ Exists(table, KeyOf(wk[w].items[i]))
                /\ table[KeyOf(wk[w].items[i])] = ToStored(wk[w].items[i])

\* the feed registered for url has been set inactive
InactiveUrl(t, url) ==
    \E k \in MetaRecords(t) :
        /\ {"feed_url", "status"} \subseteq DOMAIN t[k]
        /\ t[k].feed_url.S = url /\ t[k].status.S = INACTIVE

\* C27: no step removes a uniqueness marker; a create_feed that reaches the
\* store for a url whose feed was set inactive by delete_feed leaves the table
\* as it is and answers with the conflict response (with 500 when the store
\* call itself fails), never with 200.
C27_MarkerOutlivesDelete ==
    [][ /\ \A k \in Markers(table) : k \in DOMAIN table'
        /\ \A r \in Registrars :
              (reg[r].pc = "store" /\ reg'[r].pc = "done" /\ InactiveUrl(table, reg[r].url))
                  => /\ table' = table
                     /\ \/ reg'[r].resp = Conflict
                        \/ faults' = faults + 1 /\ reg'[r].resp = Response(500, "Internal server error")
      ]_vars
\* a create_feed for the url of a deleted feed was answered with the conflict
\* and the url still has its marker and one metadata record
C27_Witness ==
    \E r \in Registrars :
        /\ reg[r].pc = "done" /\ reg[r].resp = Conflict /\ reg[r].saw
        /\ InactiveUrl(table, reg[r].url)
        /\ reg["r2"].resp = Response(200, "Feed deleted successfully")
        /\ Exists(table, MarkerKey(reg[r].url))
        /\ Cardinality({k \in MetaRecords(table) : "feed_url" \in DOMAIN table[k]
                                                   /\ table[k].feed_url.S = reg[r].url}) = 1

====
